---- MODULE Spec2Model ----
(***************************************************************************)
(* dbc2xl: conversion of a CAN network description into a workbook.        *)
(*                                                                         *)
(* The model follows ConvertDbcToExcelUseCase.execute: CantoolsDbcParser   *)
(* .parse walks the object graph the grammar library returned and builds   *)
(* the DbcExport, then OpenpyxlExcelWriter.write renders five sheets and   *)
(* saves the workbook.  Python values are modelled as tagged records, so   *)
(* that getattr defaults, isinstance tests, int() and str() behave as they *)
(* do on values of any type.                                               *)
(***************************************************************************)
EXTENDS Integers, Sequences, FiniteSets, TLC

(***************************************************************************)
(* Bounds of the explored inputs.                                          *)
(***************************************************************************)
MaxNodes == 2
MaxMsgs == 2
MaxSigs == 2
MaxItems == 2

(***************************************************************************)
(* Python values.  t is the type tag, n the numeric payload (int, bool),   *)
(* s the characters of a str, xs the elements of a list or tuple, kv the   *)
(* items of a dict in insertion order.  "missing" is an attribute the      *)
(* object does not have (getattr falls back to its default).               *)
(***************************************************************************)
Val(t, n, s, xs, kv) == [t |-> t, n |-> n, s |-> s, xs |-> xs, kv |-> kv]

Missing == Val("missing", 0, <<>>, <<>>, <<>>)

None == Val("none", 0, <<>>, <<>>, <<>>)

PyBool(b) == Val("bool", IF b THEN 1 ELSE 0, <<>>, <<>>, <<>>)

PyI(n) == Val("int", n, <<>>, <<>>, <<>>)

PyS(s) == Val("str", 0, s, <<>>, <<>>)

PyList(xs) == Val("list", 0, <<>>, xs, <<>>)

PyTuple(xs) == Val("tuple", 0, <<>>, xs, <<>>)

PyDict(kv) == Val("dict", 0, <<>>, <<>>, kv)

\* an object of the library whose only attribute of interest is .name
PyObj(name) == Val("obj", 0, name, <<>>, <<>>)

Item(k, v) == [k |-> k, v |-> v]

\* getattr(obj, name, default)
getattr(obj, name, default) ==
    IF obj[name].t = "missing" THEN default ELSE obj[name]

Digits == <<"0", "1", "2", "3", "4", "5", "6", "7", "8", "9">>

HexDigits == <<"0", "1", "2", "3", "4", "5", "6", "7", "8", "9",
               "A", "B", "C", "D", "E", "F">>

IsDigit(c) == \E d \in 1..Len(Digits) : Digits[d] = c

DigitValue(c) == (CHOOSE d \in 1..Len(Digits) : Digits[d] = c) - 1

IsSpace(c) == c = " "

\* str.strip(): leading and trailing whitespace removed
Strip(s) ==
    LET keep == {p \in 1..Len(s) : ~IsSpace(s[p])}
    IN  IF keep = {} THEN <<>>
        ELSE LET lo == CHOOSE p \in keep : \A q \in keep : p <= q
                 hi == CHOOSE p \in keep : \A q \in keep : q <= p
             IN  SubSeq(s, lo, hi)

RECURSIVE DecimalValue(_)
DecimalValue(s) ==
    IF s = <<>> THEN 0
    ELSE 10 * DecimalValue(SubSeq(s, 1, Len(s) - 1)) + DigitValue(s[Len(s)])

\* int(str): surrounding whitespace, an optional sign, then decimal digits;
\* anything else is a ValueError (ok = FALSE)
ParseInt(s) ==
    LET body == Strip(s)
        signed == body # <<>> /\ body[1] \in {"-", "+"}
        digs == IF signed THEN Tail(body) ELSE body
    IN  IF digs # <<>> /\ \A p \in 1..Len(digs) : IsDigit(digs[p])
        THEN [ok |-> TRUE,
              n |-> IF signed /\ body[1] = "-" THEN 0 - DecimalValue(digs)
                    ELSE DecimalValue(digs)]
        ELSE [ok |-> FALSE, n |-> 0]

\* int(v): ok = FALSE stands for the TypeError / ValueError int() raises
IntOf(v) ==
    CASE v.t \in {"int", "bool"} -> [ok |-> TRUE, n |-> v.n]
      [] v.t = "str" -> ParseInt(v.s)
      [] OTHER -> [ok |-> FALSE, n |-> 0]

RECURSIVE NatChars(_, _)
NatChars(n, digits) ==
    LET base == Len(digits)
    IN  IF n < base THEN <<digits[n + 1]>>
        ELSE NatChars(n \div base, digits) \o <<digits[(n % base) + 1]>>

IntChars(n, digits) ==
    IF n < 0 THEN <<"-">> \o NatChars(0 - n, digits) ELSE NatChars(n, digits)

RECURSIVE JoinChars(_, _)
\* sep.join(parts) on sequences of characters
JoinChars(parts, sep) ==
    IF parts = <<>> THEN <<>>
    ELSE IF Len(parts) = 1 THEN parts[1]
    ELSE parts[1] \o sep \o JoinChars(Tail(parts), sep)

\* repr() of an element printed inside a container
ReprScalar(v) ==
    CASE v.t = "int" -> IntChars(v.n, Digits)
      [] v.t = "bool" -> IF v.n = 1 THEN <<"T", "r", "u", "e">>
                         ELSE <<"F", "a", "l", "s", "e">>
      [] v.t = "str" -> <<"'">> \o v.s \o <<"'">>
      [] v.t = "obj" -> <<"<">> \o v.s \o <<">">>
      [] OTHER -> <<"N", "o", "n", "e">>

\* str(v), as characters
StrChars(v) ==
    CASE v.t = "str" -> v.s
      [] v.t \in {"int", "bool", "none", "obj"} -> ReprScalar(v)
      [] v.t = "list" ->
            <<"[">> \o JoinChars([p \in 1..Len(v.xs) |-> ReprScalar(v.xs[p])],
                                 <<",", " ">>) \o <<"]">>
      [] v.t = "tuple" ->
            <<"(">> \o JoinChars([p \in 1..Len(v.xs) |-> ReprScalar(v.xs[p])],
                                 <<",", " ">>)
                    \o (IF Len(v.xs) = 1 THEN <<",">> ELSE <<>>) \o <<")">>
      [] OTHER ->
            <<"{">> \o JoinChars([p \in 1..Len(v.kv) |->
                                     ReprScalar(v.kv[p].k) \o <<":", " ">>
                                         \o ReprScalar(v.kv[p].v)],
                                 <<",", " ">>) \o <<"}">>

\* str(v), as a Python str
str(v) == PyS(StrChars(v))

\* bool(v): Python truthiness
Truthy(v) ==
    CASE v.t \in {"int", "bool"} -> v.n # 0
      [] v.t = "str" -> v.s # <<>>
      [] v.t \in {"list", "tuple"} -> v.xs # <<>>
      [] v.t = "dict" -> v.kv # <<>>
      [] v.t = "obj" -> TRUE
      [] OTHER -> FALSE

\* isinstance(v, bool)
IsBool(v) == v.t = "bool"

\* isinstance(v, dict)
IsDict(v) == v.t = "dict"

\* isinstance(v, (list, tuple))
IsListOrTuple(v) == v.t \in {"list", "tuple"}

(***************************************************************************)
(* utils/formatting.py                                                     *)
(***************************************************************************)
\* f"0x{frame_id:X}"
frame_id_hex(frame_id) == PyS(<<"0", "x">> \o IntChars(frame_id, HexDigits))

safe_str(v) == IF v.t = "none" THEN PyS(<<>>) ELSE str(v)

(***************************************************************************)
(* adapters/dbc_parser_cantools.py: field extraction helpers               *)
(***************************************************************************)
_get_comment(obj) ==
    LET c == getattr(obj, "comment", None)
    IN  IF c.t = "none" THEN None
        ELSE LET stripped == Strip(StrChars(c))
             IN  IF stripped # <<>> THEN PyS(stripped) ELSE None

_get_attributes(obj) ==
    LET attrs == getattr(obj, "attributes", None)
    IN  IF IsDict(attrs) THEN attrs ELSE PyDict(<<>>)

_as_list(v) ==
    IF v.t = "none" THEN PyList(<<>>)
    ELSE IF IsListOrTuple(v) THEN PyList([p \in 1..Len(v.xs) |-> str(v.xs[p])])
    ELSE PyList(<<str(v)>>)

\* an assignment that keeps the entry already stored under k
DictSetKeepFirst(kv, k, v) ==
    IF \E p \in 1..Len(kv) : kv[p].k = k THEN kv ELSE Append(kv, Item(k, v))

\* out[k] = v on a dict kept in insertion order
DictSet(kv, k, v) ==
    IF \E p \in 1..Len(kv) : kv[p].k = k
    THEN [p \in 1..Len(kv) |-> IF kv[p].k = k THEN Item(k, v) ELSE kv[p]]
    ELSE Append(kv, Item(k, v))

RECURSIVE ChoicesLoop(_, _)
\* the loop of _signal_choices over choices.items(), out being the dict so far
ChoicesLoop(items, out) ==
    IF items = <<>> THEN out
    ELSE LET ik == IntOf(items[1].k)
         IN  IF ik.ok
             THEN ChoicesLoop(Tail(items), DictSet(out, PyI(ik.n), str(items[1].v)))
             ELSE ChoicesLoop(Tail(items), out)

_signal_choices(sig) ==
    LET choices == getattr(sig, "choices", None)
    IN  IF IsDict(choices) THEN PyDict(ChoicesLoop(choices.kv, <<>>))
        ELSE PyDict(<<>>)

RECURSIVE MidsLoop(_, _)
\* the loop of _multiplexer_ids over a list or tuple
MidsLoop(xs, out) ==
    IF xs = <<>> THEN out
    ELSE LET ix == IntOf(xs[1])
         IN  IF ix.ok THEN MidsLoop(Tail(xs), Append(out, PyI(ix.n)))
             ELSE MidsLoop(Tail(xs), out)

\* a decoding that reports an emptied list as None
MultiplexerIdsNoneWhenEmpty(sig) ==
    LET mids == getattr(sig, "multiplexer_ids", None)
        out == MidsLoop(mids.xs, <<>>)
    IN  IF mids.t = "none" THEN None
        ELSE IF IsListOrTuple(mids) THEN (IF out = <<>> THEN None ELSE PyList(out))
        ELSE IF IntOf(mids).ok THEN PyList(<<PyI(IntOf(mids).n)>>)
        ELSE None

_multiplexer_ids(sig) ==
    LET mids == getattr(sig, "multiplexer_ids", None)
    IN  IF mids.t = "none" THEN None
        ELSE IF IsListOrTuple(mids) THEN PyList(MidsLoop(mids.xs, <<>>))
        ELSE IF IntOf(mids).ok THEN PyList(<<PyI(IntOf(mids).n)>>)
        ELSE None

\* a normalisation that defaults to False
TriStateDefaultFalse(v) == IF IsBool(v) THEN v ELSE PyBool(FALSE)

\* a boolean-like field: the value when it is a bool, None otherwise
TriState(v) == IF IsBool(v) THEN v ELSE None

\* "getattr(x, name, []) or []" over a collection of library objects
IterOf(field) == IF field.t = "list" THEN field.objs ELSE <<>>

(***************************************************************************)
(* domain/models.py: the export records, as parse constructs them          *)
(***************************************************************************)
NodeExport(n) ==
    [name |-> str(getattr(n, "name", PyS(<<>>))),
     comment |-> _get_comment(n),
     attributes |-> _get_attributes(n)]

\* the values parse computes for message m before appending it; ok = FALSE
\* when int() raised on frame_id or length
MessageExport(m) ==
    LET fid == IntOf(getattr(m, "frame_id", PyI(0)))
        length == IntOf(getattr(m, "length", PyI(0)))
        cycle_time == getattr(m, "cycle_time", None)
        cycle_time_ms == IF cycle_time.t # "none" /\ IntOf(cycle_time).ok
                         THEN PyI(IntOf(cycle_time).n) ELSE None
    IN  [ok |-> fid.ok /\ length.ok,
         v |-> [name |-> str(getattr(m, "name", PyS(<<>>))),
                frame_id |-> PyI(fid.n),
                frame_id_hex |-> frame_id_hex(fid.n),
                is_extended_frame |-> TriState(getattr(m, "is_extended_frame", None)),
                length |-> PyI(length.n),
                cycle_time_ms |-> cycle_time_ms,
                senders |-> _as_list(getattr(m, "senders", None)),
                comment |-> _get_comment(m),
                attributes |-> _get_attributes(m)]]

\* a back-reference whose hex form lacks the 0x prefix
BackReferenceBareHex(name, frame_id) ==
    [message_name |-> name,
     message_frame_id |-> PyI(frame_id),
     message_frame_id_hex |-> PyS(IntChars(frame_id, HexDigits))]

\* the fields by which a SignalExport refers to its message
BackReference(name, frame_id) ==
    [message_name |-> name,
     message_frame_id |-> PyI(frame_id),
     message_frame_id_hex |-> frame_id_hex(frame_id)]

\* the SignalExport of signal s, built with the locals msg_name and fid that parse holds for
\* the enclosing message; ok = FALSE when int() raised on start or length
SignalExport(name, frame_id, s) ==
    LET start == IntOf(getattr(s, "start", PyI(0)))
        length == IntOf(getattr(s, "length", PyI(0)))
        byte_order == getattr(s, "byte_order", None)
        mux_sig == getattr(s, "multiplexer_signal", None)
    IN  [ok |-> start.ok /\ length.ok,
         v |-> [message_name |-> BackReference(name, frame_id).message_name,
                message_frame_id |-> BackReference(name, frame_id).message_frame_id,
                message_frame_id_hex |->
                    BackReference(name, frame_id).message_frame_id_hex,
                name |-> str(getattr(s, "name", PyS(<<>>))),
                start |-> PyI(start.n),
                length |-> PyI(length.n),
                byte_order |-> IF byte_order.t # "none" THEN str(byte_order) ELSE None,
                is_signed |-> TriState(getattr(s, "is_signed", None)),
                is_float |-> TriState(getattr(s, "is_float", None)),
                factor |-> getattr(s, "scale", None),
                offset |-> getattr(s, "offset", None),
                minimum |-> getattr(s, "minimum", None),
                maximum |-> getattr(s, "maximum", None),
                unit |-> getattr(s, "unit", None),
                receivers |-> _as_list(getattr(s, "receivers", None)),
                comment |-> _get_comment(s),
                is_multiplexer |-> TriState(getattr(s, "is_multiplexer", None)),
                multiplexer_ids |-> _multiplexer_ids(s),
                multiplexer_signal |->
                    IF Truthy(mux_sig)
                    THEN (IF mux_sig.t = "obj" THEN PyS(mux_sig.s) ELSE PyS(<<>>))
                    ELSE None,
                choices |-> _signal_choices(s),
                attributes |-> _get_attributes(s)]]

AttributeExport(scope, owner, key, value) ==
    [scope |-> scope, owner |-> owner, key |-> key, value |-> value]

\* the entries of one owner in the reverse of the order of attrs.items()
FlattenAttributesReversed(scope, owner, attrs) ==
    [p \in 1..Len(attrs.kv) |->
        AttributeExport(scope, owner, str(attrs.kv[Len(attrs.kv) + 1 - p].k),
                        attrs.kv[Len(attrs.kv) + 1 - p].v)]

\* the AttributeExport entries of one owner, in the order of attrs.items()
FlattenAttributes(scope, owner, attrs) ==
    [p \in 1..Len(attrs.kv) |->
        AttributeExport(scope, owner, str(attrs.kv[p].k), attrs.kv[p].v)]

\* f"{msg_name}.{sig_name}"
SignalOwner(msg_name, sig_name) == PyS(msg_name.s \o <<".">> \o sig_name.s)

\* a closing loop that flattens nothing
FlattenNoNodes(ns) == <<>>

RECURSIVE FlattenNodes(_)
\* the closing loop of parse over the nodes
FlattenNodes(ns) ==
    IF ns = <<>> THEN <<>>
    ELSE FlattenAttributes("node", ns[1].name, ns[1].attributes)
             \o FlattenNodes(Tail(ns))

DbcExport(ns, ms, ss, as) ==
    [nodes |-> ns, messages |-> ms, signals |-> ss, attributes |-> as]

(***************************************************************************)
(* Ordering of Python values, as sorted() uses it.                         *)
(***************************************************************************)
\* the printable ASCII characters in code point order (from 32); the grave
\* accent (96) cannot be written in a string and its place is left empty
Ascii == <<
           " ", "!", "\"", "#", "$", "%", "&", "'", "(", ")", "*", "+",
           ",", "-", ".", "/", "0", "1", "2", "3", "4", "5", "6", "7",
           "8", "9", ":", ";", "<", "=", ">", "?", "@", "A", "B", "C",
           "D", "E", "F", "G", "H", "I", "J", "K", "L", "M", "N", "O",
           "P", "Q", "R", "S", "T", "U", "V", "W", "X", "Y", "Z", "[",
           "\\", "]", "^", "_", "", "a", "b", "c", "d", "e", "f", "g",
           "h", "i", "j", "k", "l", "m", "n", "o", "p", "q", "r", "s",
           "t", "u", "v", "w", "x", "y", "z", "{", "|", "}", "~">>

CodePoint(c) == 31 + (CHOOSE p \in 1..Len(Ascii) : Ascii[p] = c)

RECURSIVE CharsLess(_, _)
\* a < b on str: lexicographic by code point
CharsLess(a, b) ==
    IF b = <<>> THEN FALSE
    ELSE IF a = <<>> THEN TRUE
    ELSE IF a[1] = b[1] THEN CharsLess(Tail(a), Tail(b))
    ELSE CodePoint(a[1]) < CodePoint(b[1])

\* whether a < b is defined (it raises TypeError otherwise)
Comparable(a, b) ==
    \/ a.t = "str" /\ b.t = "str"
    \/ a.t \in {"int", "bool"} /\ b.t \in {"int", "bool"}

PyLess(a, b) == IF a.t = "str" THEN CharsLess(a.s, b.s) ELSE a.n < b.n

RECURSIVE SortByKey(_)
\* the items of a dict in ascending key order (keys are pairwise different)
SortByKey(kv) ==
    IF kv = <<>> THEN <<>>
    ELSE LET lo == CHOOSE p \in 1..Len(kv) :
                       \A q \in 1..Len(kv) : q = p \/ PyLess(kv[p].k, kv[q].k)
             rest == [q \in 1..(Len(kv) - 1) |-> IF q < lo THEN kv[q] ELSE kv[q + 1]]
         IN  <<kv[lo]>> \o SortByKey(rest)

\* sorted(d.items()): ok = FALSE when two keys cannot be compared
sorted_items(d) ==
    IF \A p, q \in 1..Len(d.kv) : Comparable(d.kv[p].k, d.kv[q].k)
    THEN [ok |-> TRUE, kv |-> SortByKey(d.kv)]
    ELSE [ok |-> FALSE, kv |-> <<>>]

\* the items as k=v pairs joined by a semicolon and a space
JoinItems(kv) ==
    PyS(JoinChars([p \in 1..Len(kv) |->
                      StrChars(kv[p].k) \o <<"=">> \o StrChars(kv[p].v)],
                  <<";", " ">>))

stringify_choices(choices) == JoinItems(SortByKey(choices.kv))

\* the attribute cell of the Messages, Signals and Nodes sheets
AttrsString(d) ==
    LET items == sorted_items(d)
    IN  [ok |-> items.ok,
         v |-> JoinItems([p \in 1..Len(items.kv) |->
                            Item(items.kv[p].k, safe_str(items.kv[p].v))])]

\* ", ".join(xs) on a list of str
CommaJoin(xs) == PyS(JoinChars([p \in 1..Len(xs) |-> xs[p].s], <<",", " ">>))

(***************************************************************************)
(* adapters/excel_writer_openpyxl.py                                       *)
(***************************************************************************)
RECURSIVE Text(_)
\* the characters of a str as one string
Text(s) == IF s = <<>> THEN "" ELSE s[1] \o Text(Tail(s))

\* a cell value: a str (text) or a number (n)
Cell(v) == [t |-> v.t, n |-> v.n, text |-> Text(v.s)]

StrCell(text) == [t |-> "str", n |-> 0, text |-> text]

Blank == StrCell("")

_bool_str(v) ==
    IF v.t = "none" THEN Blank
    ELSE IF Truthy(v) THEN StrCell("Yes") ELSE StrCell("No")

\* the empty string when x is None, x otherwise
BlankIfNone(v) == IF v.t = "none" THEN Blank ELSE Cell(v)

MaxWidth == 60

MinWidth == 10

WidthPad == 2

Max(a, b) == IF a >= b THEN a ELSE b

Min(a, b) == IF a <= b THEN a ELSE b

Headers(titles) == [p \in 1..Len(titles) |-> StrCell(titles[p])]

MessageHeaders ==
    Headers(<<"Message Name", "Frame ID (Hex)", "Frame ID (Dec)", "Extended Frame",
              "DLC/Length", "Cycle Time (ms)", "Senders (Origin Nodes)", "Comment",
              "Attributes (Key=Value; ...)">>)

SignalHeaders ==
    Headers(<<"Message Name", "Msg Frame ID (Hex)", "Msg Frame ID (Dec)",
              "Signal Name", "Start Bit", "Length (bits)", "Byte Order", "Signed",
              "Float", "Factor", "Offset", "Min", "Max", "Unit", "Receivers",
              "Multiplexer", "Mux IDs", "Mux Signal", "Choices / Value Table",
              "Comment", "Attributes (Key=Value; ...)">>)

NodeHeaders == Headers(<<"Node Name", "Comment", "Attributes (Key=Value; ...)">>)

AttributeHeaders == Headers(<<"Scope", "Owner", "Key", "Value">>)

ValueTableHeaders ==
    Headers(<<"Message", "Signal", "Frame ID (Hex)", "Value", "Text">>)

\* one yield of rows() in _write_messages; ok = FALSE when sorted() raised
MessageRow(m) ==
    LET attrs == AttrsString(m.attributes)
    IN  [ok |-> attrs.ok,
         row |-> <<Cell(m.name),
                   Cell(m.frame_id_hex),
                   Cell(m.frame_id),
                   _bool_str(m.is_extended_frame),
                   Cell(m.length),
                   BlankIfNone(m.cycle_time_ms),
                   Cell(CommaJoin(m.senders.xs)),
                   Cell(safe_str(m.comment)),
                   Cell(attrs.v)>>]

\* the Mux IDs cell: blank when multiplexer_ids is None or empty
MuxIdsCell(mids) ==
    IF ~Truthy(mids) THEN Blank
    ELSE Cell(CommaJoin([p \in 1..Len(mids.xs) |-> str(mids.xs[p])]))

\* one yield of rows() in _write_signals; ok = FALSE when sorted() raised
SignalRow(s) ==
    LET attrs == AttrsString(s.attributes)
        choices_str == IF Truthy(s.choices) THEN Cell(stringify_choices(s.choices))
                       ELSE Blank
    IN  [ok |-> attrs.ok,
         row |-> <<Cell(s.message_name),
                   Cell(s.message_frame_id_hex),
                   Cell(s.message_frame_id),
                   Cell(s.name),
                   Cell(s.start),
                   Cell(s.length),
                   Cell(safe_str(s.byte_order)),
                   _bool_str(s.is_signed),
                   _bool_str(s.is_float),
                   BlankIfNone(s.factor),
                   BlankIfNone(s.offset),
                   BlankIfNone(s.minimum),
                   BlankIfNone(s.maximum),
                   Cell(safe_str(s.unit)),
                   Cell(CommaJoin(s.receivers.xs)),
                   _bool_str(s.is_multiplexer),
                   MuxIdsCell(s.multiplexer_ids),
                   Cell(safe_str(s.multiplexer_signal)),
                   choices_str,
                   Cell(safe_str(s.comment)),
                   Cell(attrs.v)>>]

\* one yield of rows() in _write_nodes; ok = FALSE when sorted() raised
NodeRow(n) ==
    LET attrs == AttrsString(n.attributes)
    IN  [ok |-> attrs.ok,
         row |-> <<Cell(n.name), Cell(safe_str(n.comment)), Cell(attrs.v)>>]

\* one yield of rows() in _write_attributes
AttributeRow(a) ==
    [ok |-> TRUE,
     row |-> <<StrCell(a.scope), Cell(a.owner), Cell(a.key), Cell(safe_str(a.value))>>]

\* the choices in the order the mapping holds them
ChoiceOrderAsStored(choices) == choices.kv

\* the order in which _write_value_tables walks the choices of one signal
ChoiceOrder(choices) == SortByKey(choices.kv)

\* the rows _write_value_tables yields for one signal
SignalValueRows(s) ==
    IF ~Truthy(s.choices) THEN <<>>
    ELSE LET items == ChoiceOrder(s.choices)
         IN  [p \in 1..Len(items) |->
                 [ok |-> TRUE,
                  row |-> <<Cell(s.message_name), Cell(s.name),
                            Cell(s.message_frame_id_hex),
                            Cell(items[p].k), Cell(items[p].v)>>]]

RECURSIVE ValueTableRows(_)
\* all yields of rows() in _write_value_tables
ValueTableRows(ss) ==
    IF ss = <<>> THEN <<>>
    ELSE SignalValueRows(ss[1]) \o ValueTableRows(Tail(ss))

\* the sheets with Nodes written before Signals
SheetTitlesNodesFirst == <<"Messages", "Nodes", "Signals", "Attributes", "ValueTables">>

\* the sheets of write, in the order of its calls
SheetTitles == <<"Messages", "Signals", "Nodes", "Attributes", "ValueTables">>

SheetHeaders ==
    <<MessageHeaders, SignalHeaders, NodeHeaders, AttributeHeaders, ValueTableHeaders>>

\* the number of yields of rows() for sheet number sheet of export e
RowCount(e, sheet) ==
    CASE sheet = 1 -> Len(e.messages)
      [] sheet = 2 -> Len(e.signals)
      [] sheet = 3 -> Len(e.nodes)
      [] sheet = 4 -> Len(e.attributes)
      [] OTHER -> Len(ValueTableRows(e.signals))

\* yield number row of rows() for sheet number sheet of export e
RowOf(e, sheet, row) ==
    CASE sheet = 1 -> MessageRow(e.messages[row])
      [] sheet = 2 -> SignalRow(e.signals[row])
      [] sheet = 3 -> NodeRow(e.nodes[row])
      [] sheet = 4 -> AttributeRow(e.attributes[row])
      [] OTHER -> ValueTableRows(e.signals)[row]

\* the columns _set_wrap_for_columns is called with (none for the last two sheets)
WrapCols(sheet) ==
    CASE sheet = 1 -> {8, 9}
      [] sheet = 2 -> {19, 20, 21}
      [] sheet = 3 -> {2, 3}
      [] OTHER -> {}

\* wb.create_sheet(title)
create_sheet(title) ==
    [title |-> title, rows |-> <<>>, freeze_panes |-> "", auto_filter |-> <<0, 0>>,
     header_styled |-> FALSE, widths |-> <<>>, wrapped |-> {}]

\* the sheet a new Workbook() holds
DefaultSheet == create_sheet("Sheet")

\* len(str(value)), None counting as the empty string
CellStrLen(c) ==
    IF c.t = "str" THEN Len(c.text)
    ELSE IF c.t = "none" THEN 0
    ELSE Len(StrChars(Val(c.t, c.n, <<>>, <<>>, <<>>)))

RECURSIVE MaxOver(_, _)
MaxOver(f, dom) ==
    IF dom = {} THEN 0
    ELSE LET x == CHOOSE y \in dom : TRUE
         IN  Max(f[x], MaxOver(f, dom \ {x}))

\* a width padded after clamping instead of before
ColumnWidthPadLast(width, max_width) ==
    Min(Max(width, MinWidth), max_width) + WidthPad

ColumnWidth(width, max_width) == Min(Max(width + WidthPad, MinWidth), max_width)

_autosize_columns(ws, max_width) ==
    LET ncols == IF ws.rows = <<>> THEN 0 ELSE Len(ws.rows[1])
        dims == [idx \in 1..ncols |->
                    MaxOver([rw \in 1..Len(ws.rows) |-> CellStrLen(ws.rows[rw][idx])],
                            1..Len(ws.rows))]
    IN  [ws EXCEPT !.widths = [idx \in 1..ncols |-> ColumnWidth(dims[idx], max_width)]]

_apply_table_header(ws) ==
    [ws EXCEPT !.freeze_panes = "A2",
               !.auto_filter = <<Len(ws.rows[1]), Len(ws.rows)>>,
               !.header_styled = TRUE]

_set_wrap_for_columns(ws, wrap_cols) ==
    [ws EXCEPT !.wrapped = {<<rw, col>> \in (2..Len(ws.rows)) \X wrap_cols :
                               col <= Len(ws.rows[rw])}]

\* Workbook(): a workbook holding its default sheet
Workbook == <<DefaultSheet>>

\* wb.remove(ws)
remove(book, ws) == SelectSeq(book, LAMBDA x : x # ws)

(***************************************************************************)
(* The networks the grammar library may hand to parse.  A library object   *)
(* is a record of its attributes; collections of objects carry a tag so    *)
(* that a missing or None collection can be told from a list.              *)
(***************************************************************************)
Objects(objs) == [t |-> "list", objs |-> objs]

NoObjects(t) == [t |-> t, objs |-> <<>>]

SeqsUpTo(S, n) == UNION {[1..m -> S] : m \in 0..n}

Name(prefix, p) == PyS(<<prefix>> \o IntChars(p, Digits))

AttrsBA == PyDict(<<Item(PyS(<<"b">>), PyI(1)), Item(PyS(<<"a">>), None)>>)

AttrsZ == PyDict(<<Item(PyS(<<"z">>), PyS(<<"7">>))>>)

AttrsMixed == PyDict(<<Item(PyS(<<"a">>), PyI(1)), Item(PyI(2), PyS(<<"x">>))>>)

ChoicesFaultOff ==
    PyDict(<<Item(PyI(2), PyS(<<"F", "a", "u", "l", "t">>)),
             Item(PyI(0), PyS(<<"O", "f", "f">>))>>)

BaseNode ==
    [name |-> PyS(<<"E", "C", "U", "1">>), comment |-> None, attributes |-> PyDict(<<>>)]

BaseSignal ==
    [name |-> PyS(<<"R", "P", "M">>), start |-> PyI(0), length |-> PyI(16),
     byte_order |-> PyS(<<"l", "i", "t", "t", "l", "e", "_", "e", "n", "d", "i", "a", "n">>),
     is_signed |-> PyBool(FALSE), is_float |-> PyBool(FALSE),
     scale |-> PyI(1), offset |-> PyI(0), minimum |-> None, maximum |-> None,
     unit |-> PyS(<<"r", "p", "m">>), receivers |-> PyList(<<>>), comment |-> None,
     is_multiplexer |-> PyBool(FALSE), multiplexer_ids |-> None,
     multiplexer_signal |-> None, choices |-> None, attributes |-> PyDict(<<>>)]

BaseMessage ==
    [name |-> PyS(<<"E", "n", "g", "i", "n", "e">>), frame_id |-> PyI(256),
     is_extended_frame |-> PyBool(FALSE), length |-> PyI(8), cycle_time |-> None,
     senders |-> PyList(<<PyS(<<"E", "C", "U", "1">>)>>), comment |-> None,
     attributes |-> PyDict(<<>>), signals |-> Objects(<<BaseSignal>>)]

Network(ns, ms) == [nodes |-> ns, messages |-> ms]

\* networks of every shape within the bounds, the content of an entity being
\* fixed by its position
ShapeNode(p) ==
    [BaseNode EXCEPT !.name = Name("N", p),
                     !.comment = IF p % 2 = 1 THEN PyS(<<" ", "e", "c", "u", " ">>) ELSE None,
                     !.attributes = IF p % 2 = 1 THEN AttrsBA ELSE PyDict(<<>>)]

ShapeSignal(q) ==
    [BaseSignal EXCEPT !.name = Name("S", q),
                       !.choices = IF q % 2 = 1 THEN ChoicesFaultOff ELSE None,
                       !.multiplexer_ids = IF q % 2 = 1 THEN None ELSE PyList(<<PyI(1), PyI(3)>>),
                       !.attributes = IF q % 2 = 1 THEN AttrsZ ELSE AttrsBA]

ShapeMessage(p, nsigs) ==
    [BaseMessage EXCEPT !.name = Name("M", p),
                        !.frame_id = PyI(255 + p),
                        !.cycle_time = IF p % 2 = 1 THEN PyI(100) ELSE None,
                        !.attributes = IF p % 2 = 1 THEN AttrsBA ELSE AttrsZ,
                        !.signals = Objects([q \in 1..nsigs |-> ShapeSignal(q)])]

ShapeNetworks ==
    {Network(Objects([p \in 1..nn |-> ShapeNode(p)]),
             Objects([p \in 1..Len(c) |-> ShapeMessage(p, c[p])])) :
        nn \in 0..MaxNodes, c \in SeqsUpTo(0..MaxSigs, MaxMsgs)}

\* values a field may hold, of the expected type or not
Scalars ==
    {Missing, None, PyBool(TRUE), PyBool(FALSE), PyI(0), PyI(1), PyI(2047),
     PyS(<<>>), PyS(<<"1", "2">>), PyS(<<" ", "x", " ">>), PyObj(<<"o">>),
     PyList(<<>>)}

Numbers == {Missing, None, PyI(2)}

ListLikes ==
    {Missing, None, PyS(<<"E", "1">>), PyI(5), PyList(<<>>),
     PyList(<<PyS(<<"E", "1">>), PyI(3)>>), PyTuple(<<PyS(<<"E", "2">>)>>)}

AttrLikes ==
    {Missing, None, PyList(<<>>), PyS(<<"x">>), PyDict(<<>>), AttrsBA, AttrsZ,
     AttrsMixed, PyDict(<<Item(PyI(5), PyI(1))>>), PyDict(<<Item(None, PyI(1))>>),
     PyDict(<<Item(None, PyI(1)), Item(PyS(<<"k">>), PyI(2))>>)}

ChoiceKeys ==
    {PyI(0), PyI(2), PyS(<<"2">>), PyS(<<" ", "1">>), PyS(<<"x">>), None, PyBool(TRUE)}

\* whether two values are the same dict key
SameKey(a, b) ==
    \/ a = b
    \/ a.t \in {"int", "bool"} /\ b.t \in {"int", "bool"} /\ a.n = b.n

ChoiceValue(p) == IF p % 2 = 1 THEN PyS(<<"O", "n">>) ELSE PyI(5)

ChoiceDicts ==
    {PyDict([p \in 1..Len(ks) |-> Item(ks[p], ChoiceValue(p))]) :
        ks \in {c \in SeqsUpTo(ChoiceKeys, MaxItems) :
                   \A p, q \in 1..Len(c) : p # q => ~SameKey(c[p], c[q])}}

ChoiceLikes == {Missing, None, PyList(<<>>)} \cup ChoiceDicts

MidElements == {PyI(1), PyS(<<"2">>), PyS(<<"x">>), None}

MidLikes ==
    {Missing, None, PyI(3), PyS(<<"7">>), PyS(<<"x">>), PyObj(<<"o">>)}
        \cup {PyList(xs) : xs \in SeqsUpTo(MidElements, MaxItems)}
        \cup {PyTuple(xs) : xs \in SeqsUpTo(MidElements, MaxItems)}

\* comments whose length lies around the point where the padded width reaches
\* the ceiling
LongTexts ==
    {PyS([p \in 1..n |-> "c"]) : n \in (MaxWidth - WidthPad - 1)..(MaxWidth + 1)}

MessageVariants ==
    {[BaseMessage EXCEPT ![f] = v] :
        f \in {"name", "frame_id", "is_extended_frame", "length", "cycle_time",
               "comment"}, v \in Scalars}
        \cup {[BaseMessage EXCEPT !.comment = v] : v \in LongTexts}
        \cup {[BaseMessage EXCEPT !.senders = v] : v \in ListLikes}
        \cup {[BaseMessage EXCEPT !.attributes = v] : v \in AttrLikes}
        \cup {[BaseMessage EXCEPT !.signals = NoObjects(tag)] : tag \in {"none", "missing"}}

SignalVariants ==
    {[BaseSignal EXCEPT ![f] = v] :
        f \in {"name", "start", "length", "byte_order", "is_signed", "is_float",
               "unit", "comment", "is_multiplexer", "multiplexer_signal"},
        v \in Scalars}
        \cup {[BaseSignal EXCEPT ![f] = v] :
                 f \in {"scale", "offset", "minimum", "maximum"}, v \in Numbers}
        \cup {[BaseSignal EXCEPT !.receivers = v] : v \in ListLikes}
        \cup {[BaseSignal EXCEPT !.attributes = v] : v \in AttrLikes}
        \cup {[BaseSignal EXCEPT !.choices = v] : v \in ChoiceLikes}
        \cup {[BaseSignal EXCEPT !.multiplexer_ids = v] : v \in MidLikes}

NodeVariants ==
    {[BaseNode EXCEPT ![f] = v] : f \in {"name", "comment"}, v \in Scalars}
        \cup {[BaseNode EXCEPT !.attributes = v] : v \in AttrLikes}

\* networks of one node, one message and one signal in which one field varies
FieldNetworks ==
    {Network(Objects(<<BaseNode>>), Objects(<<m>>)) : m \in MessageVariants}
        \cup {Network(Objects(<<BaseNode>>),
                      Objects(<<[BaseMessage EXCEPT !.signals = Objects(<<s>>)]>>)) :
                 s \in SignalVariants}
        \cup {Network(Objects(<<n>>), Objects(<<BaseMessage>>)) : n \in NodeVariants}
        \cup {Network(NoObjects(tag), NoObjects(tag)) : tag \in {"none", "missing"}}

Networks == ShapeNetworks \cup FieldNetworks

(***************************************************************************)
(* State.                                                                  *)
(***************************************************************************)
VARIABLES
    db,            \* what cantools.database.load_file returns
    pc,            \* the statement execute, parse or write is at
    ni, i, j,      \* positions of the loops of parse: node, message, signal
    msg_name, fid, \* locals of parse for the message being walked
    nodes, messages, signals, attributes,   \* the lists parse builds
    export,        \* what parse returned to execute
    parse_calls, write_calls,               \* calls execute has made
    written,       \* the export argument of write
    wb,            \* the sheets of the workbook
    sheet, row,    \* positions of write: sheet number, next yield of rows()
    saves          \* calls of wb.save

vars == <<db, pc, ni, i, j, msg_name, fid, nodes, messages, signals, attributes,
          export, parse_calls, write_calls, written, wb, sheet, row, saves>>

parse_locals == <<ni, i, j, msg_name, fid, nodes, messages, signals, attributes>>

writer_state == <<written, wb, sheet, row, saves>>

EmptyExport == DbcExport(<<>>, <<>>, <<>>, <<>>)

NotReturned == [returned |-> FALSE, v |-> EmptyExport]

Init ==
    /\ db \in Networks
    /\ pc = "start"
    /\ ni = 1 /\ i = 1 /\ j = 1
    /\ msg_name = PyS(<<>>) /\ fid = 0
    /\ nodes = <<>> /\ messages = <<>> /\ signals = <<>> /\ attributes = <<>>
    /\ export = NotReturned
    /\ parse_calls = 0 /\ write_calls = 0
    /\ written = EmptyExport
    /\ wb = <<>>
    /\ sheet = 0 /\ row = 0
    /\ saves = 0

DbNodes == IterOf(getattr(db, "nodes", Objects(<<>>)))

DbMessages == IterOf(getattr(db, "messages", Objects(<<>>)))

\* the signals of message number p of the network
MessageSignals(p) == IterOf(getattr(DbMessages[p], "signals", Objects(<<>>)))

(***************************************************************************)
(* ConvertDbcToExcelUseCase.execute calls parser.parse, which loads the    *)
(* file; the library raising ends the conversion.                          *)
(***************************************************************************)
load_file ==
    /\ pc = "start"
    /\ parse_calls' = parse_calls + 1
    /\ \E loaded \in BOOLEAN : pc' = IF loaded THEN "nodes" ELSE "load_failed"
    /\ UNCHANGED <<db, parse_locals, export, write_calls, writer_state>>

AppendNode ==
    /\ pc = "nodes"
    /\ ni <= Len(DbNodes)
    /\ nodes' = Append(nodes, NodeExport(DbNodes[ni]))
    /\ ni' = ni + 1
    /\ UNCHANGED <<db, pc, i, j, msg_name, fid, messages, signals, attributes,
                   export, parse_calls, write_calls, writer_state>>

NodesDone ==
    /\ pc = "nodes"
    /\ ni > Len(DbNodes)
    /\ pc' = "messages"
    /\ UNCHANGED <<db, parse_locals, export, parse_calls, write_calls, writer_state>>

AppendMessage ==
    /\ pc = "messages"
    /\ i <= Len(DbMessages)
    /\ LET m == MessageExport(DbMessages[i])
       IN  IF m.ok
           THEN /\ messages' = Append(messages, m.v)
                /\ msg_name' = m.v.name
                /\ fid' = m.v.frame_id.n
                /\ pc' = "message_attributes"
           ELSE /\ pc' = "parse_raised"
                /\ UNCHANGED <<messages, msg_name, fid>>
    /\ UNCHANGED <<db, ni, i, j, nodes, signals, attributes, export, parse_calls,
                   write_calls, writer_state>>

FlattenMessageAttributes ==
    /\ pc = "message_attributes"
    /\ attributes' = attributes
           \o FlattenAttributes("message", msg_name, _get_attributes(DbMessages[i]))
    /\ j' = 1
    /\ pc' = "signals"
    /\ UNCHANGED <<db, ni, i, msg_name, fid, nodes, messages, signals, export,
                   parse_calls, write_calls, writer_state>>

AppendSignal ==
    /\ pc = "signals"
    /\ j <= Len(MessageSignals(i))
    /\ LET s == SignalExport(msg_name, fid, MessageSignals(i)[j])
       IN  IF s.ok
           THEN /\ signals' = Append(signals, s.v)
                /\ pc' = "signal_attributes"
           ELSE /\ pc' = "parse_raised"
                /\ UNCHANGED signals
    /\ UNCHANGED <<db, ni, i, j, msg_name, fid, nodes, messages, attributes, export,
                   parse_calls, write_calls, writer_state>>

FlattenSignalAttributes ==
    /\ pc = "signal_attributes"
    /\ attributes' = attributes
           \o FlattenAttributes("signal",
                                SignalOwner(msg_name, signals[Len(signals)].name),
                                _get_attributes(MessageSignals(i)[j]))
    /\ j' = j + 1
    /\ pc' = "signals"
    /\ UNCHANGED <<db, ni, i, msg_name, fid, nodes, messages, signals, export,
                   parse_calls, write_calls, writer_state>>

SignalsDone ==
    /\ pc = "signals"
    /\ j > Len(MessageSignals(i))
    /\ i' = i + 1
    /\ pc' = "messages"
    /\ UNCHANGED <<db, ni, j, msg_name, fid, nodes, messages, signals, attributes,
                   export, parse_calls, write_calls, writer_state>>

MessagesDone ==
    /\ pc = "messages"
    /\ i > Len(DbMessages)
    /\ pc' = "node_attributes"
    /\ UNCHANGED <<db, parse_locals, export, parse_calls, write_calls, writer_state>>

FlattenNodeAttributes ==
    /\ pc = "node_attributes"
    /\ attributes' = attributes \o FlattenNodes(nodes)
    /\ pc' = "return"
    /\ UNCHANGED <<db, ni, i, j, msg_name, fid, nodes, messages, signals, export,
                   parse_calls, write_calls, writer_state>>

Return ==
    /\ pc = "return"
    /\ export' = [returned |-> TRUE,
                  v |-> DbcExport(nodes, messages, signals, attributes)]
    /\ pc' = "parsed"
    /\ UNCHANGED <<db, parse_locals, parse_calls, write_calls, writer_state>>

(***************************************************************************)
(* execute goes on to writer.write once parse has returned.                *)
(***************************************************************************)
\* execute going on to write although parse raised
WriteReachedDespiteFailure == pc \in {"parsed", "load_failed", "parse_raised"}

\* the positions from which execute reaches its call of writer.write
WriteReached == pc = "parsed"

\* the position after the statements of one sheet
AfterSheet(n) == IF n < Len(SheetTitles) THEN "create" ELSE "save"

write ==
    /\ WriteReached
    /\ write_calls' = write_calls + 1
    /\ written' = export.v
    /\ wb' = remove(Workbook, Workbook[1])
    /\ sheet' = 1
    /\ pc' = "create"
    /\ UNCHANGED <<db, parse_locals, export, parse_calls, row, saves>>

CreateSheet ==
    /\ pc = "create"
    /\ wb' = Append(wb, create_sheet(SheetTitles[sheet]))
    /\ pc' = "header"
    /\ UNCHANGED <<db, parse_locals, export, parse_calls, write_calls, written,
                   sheet, row, saves>>

AppendHeader ==
    /\ pc = "header"
    /\ wb' = [wb EXCEPT ![Len(wb)].rows = Append(@, SheetHeaders[sheet])]
    /\ row' = 1
    /\ pc' = "rows"
    /\ UNCHANGED <<db, parse_locals, export, parse_calls, write_calls, written,
                   sheet, saves>>

AppendRow ==
    /\ pc = "rows"
    /\ row <= RowCount(written, sheet)
    /\ LET y == RowOf(written, sheet, row)
       IN  IF y.ok
           THEN /\ wb' = [wb EXCEPT ![Len(wb)].rows = Append(@, y.row)]
                /\ row' = row + 1
                /\ pc' = pc
           ELSE /\ pc' = "write_raised"
                /\ UNCHANGED <<wb, row>>
    /\ UNCHANGED <<db, parse_locals, export, parse_calls, write_calls, written,
                   sheet, saves>>

ApplyTableHeader ==
    /\ pc = "rows"
    /\ row > RowCount(written, sheet)
    /\ wb' = [wb EXCEPT ![Len(wb)] = _apply_table_header(@)]
    /\ pc' = "autosize"
    /\ UNCHANGED <<db, parse_locals, export, parse_calls, write_calls, written,
                   sheet, row, saves>>

AutosizeColumns ==
    /\ pc = "autosize"
    /\ wb' = [wb EXCEPT ![Len(wb)] = _autosize_columns(@, MaxWidth)]
    /\ IF WrapCols(sheet) # {}
       THEN pc' = "wrap" /\ sheet' = sheet
       ELSE pc' = AfterSheet(sheet) /\ sheet' = sheet + 1
    /\ UNCHANGED <<db, parse_locals, export, parse_calls, write_calls, written,
                   row, saves>>

SetWrap ==
    /\ pc = "wrap"
    /\ wb' = [wb EXCEPT ![Len(wb)] = _set_wrap_for_columns(@, WrapCols(sheet))]
    /\ pc' = AfterSheet(sheet)
    /\ sheet' = sheet + 1
    /\ UNCHANGED <<db, parse_locals, export, parse_calls, write_calls, written,
                   row, saves>>

save ==
    /\ pc = "save"
    /\ saves' = saves + 1
    /\ \E stored \in BOOLEAN : pc' = IF stored THEN "done" ELSE "save_failed"
    /\ UNCHANGED <<db, parse_locals, export, parse_calls, write_calls, written,
                   wb, sheet, row>>

Next ==
    \/ load_file
    \/ AppendNode
    \/ NodesDone
    \/ AppendMessage
    \/ FlattenMessageAttributes
    \/ AppendSignal
    \/ FlattenSignalAttributes
    \/ SignalsDone
    \/ MessagesDone
    \/ FlattenNodeAttributes
    \/ Return
    \/ write
    \/ CreateSheet
    \/ AppendHeader
    \/ AppendRow
    \/ ApplyTableHeader
    \/ AutosizeColumns
    \/ SetWrap
    \/ save

Spec == Init /\ [][Next]_vars

(***************************************************************************)
(* The source network, read without the parser's helpers.                  *)
(***************************************************************************)
RECURSIVE SourceSignalsFrom(_)
\* the signal objects of the messages from number p on, in iteration order
SourceSignalsFrom(p) ==
    IF p > Len(DbMessages) THEN <<>>
    ELSE MessageSignals(p) \o SourceSignalsFrom(p + 1)

SourceSignals == SourceSignalsFrom(1)

\* the items of the attribute mapping of a library object (none when the
\* attribute is not a mapping)
SourceItems(obj) == IF obj.attributes.t = "dict" THEN obj.attributes.kv ELSE <<>>

RECURSIVE SumLen(_)
SumLen(seqs) == IF seqs = <<>> THEN 0 ELSE Len(seqs[1]) + SumLen(Tail(seqs))

SourceAttributeCount ==
    SumLen([p \in 1..Len(DbNodes) |-> SourceItems(DbNodes[p])])
        + SumLen([p \in 1..Len(DbMessages) |-> SourceItems(DbMessages[p])])
        + SumLen([p \in 1..Len(SourceSignals) |-> SourceItems(SourceSignals[p])])

ParseFailed == pc \in {"load_failed", "parse_raised"}

\* C1: when parse raises, write is never called and no sheet or save exists;
\* parse and write are each called at most once, write only after parse has
\* returned and with the Export it returned; a finished conversion has made
\* exactly one call of each.
C1_ParseThenWrite ==
    /\ parse_calls <= 1 /\ write_calls <= 1
    /\ ParseFailed => parse_calls = 1 /\ write_calls = 0 /\ wb = <<>> /\ saves = 0
    /\ write_calls = 1 => parse_calls = 1 /\ export.returned /\ written = export.v
    /\ pc \in {"done", "save_failed", "write_raised"} =>
           parse_calls = 1 /\ write_calls = 1

C1_Witness ==
    /\ pc = "done"
    /\ write_calls = 1
    /\ Len(written.messages) = MaxMsgs
    /\ Len(written.signals) > 0

\* C2: once the network is loaded, no value of a field makes parse or the
\* row generation of the writer raise.
C2_NoFieldAnomalyRaises == pc \notin {"parse_raised", "write_raised"}

\* C3: the Export parse returns has as many nodes, messages and signals as the
\* network, and as many attributes as the attribute mappings of all nodes,
\* messages and signals hold together.
C3_ShapePreserved ==
    export.returned =>
        /\ Len(export.v.nodes) = Len(DbNodes)
        /\ Len(export.v.messages) = Len(DbMessages)
        /\ Len(export.v.signals) = Len(SourceSignals)
        /\ Len(export.v.attributes) = SourceAttributeCount

C3_Witness ==
    /\ export.returned
    /\ Len(export.v.nodes) = MaxNodes
    /\ Len(export.v.messages) = MaxMsgs
    /\ Len(export.v.signals) = MaxMsgs * MaxSigs
    /\ SumLen([p \in 1..Len(DbNodes) |-> SourceItems(DbNodes[p])]) > 0
    /\ Len(export.v.attributes) > Len(export.v.signals)

\* whether signal entry s refers to message entry m
RefersTo(s, m) ==
    /\ s.message_name = m.name
    /\ s.message_frame_id = m.frame_id
    /\ s.message_frame_id_hex = m.frame_id_hex

\* C4: at every point of parse and in the Export it returns, every Signal
\* entry refers, by name, frame id and hex frame id, to a Message entry that
\* is already in the messages list.
C4_SignalsReferToMessages ==
    /\ \A p \in 1..Len(signals) : \E q \in 1..Len(messages) :
           RefersTo(signals[p], messages[q])
    /\ export.returned =>
           \A p \in 1..Len(export.v.signals) : \E q \in 1..Len(export.v.messages) :
               RefersTo(export.v.signals[p], export.v.messages[q])

C4_Witness ==
    /\ pc = "signal_attributes"
    /\ Len(messages) = MaxMsgs
    /\ Len(signals) > MaxSigs
    /\ signals[1].message_frame_id # signals[Len(signals)].message_frame_id

\* the elements of a multiplexer id source that int() accepts, as integers in
\* source order (a scalar counts as a single element)
ParsableIds(mids) ==
    LET elems == IF mids.t \in {"list", "tuple"} THEN mids.xs
                 ELSE IF mids.t \in {"none", "missing"} THEN <<>>
                 ELSE <<mids>>
        kept == SelectSeq(elems, LAMBDA x : IntOf(x).ok)
    IN  [p \in 1..Len(kept) |-> PyI(IntOf(kept[p]).n)]

\* C5 as claimed: a Signal's multiplexer_ids is None whenever no element of
\* the source parses to an integer, and the parsable elements in source order
\* otherwise.
C5_AbsentWhenNoneParses ==
    \A p \in 1..Len(signals) :
        LET ids == ParsableIds(SourceSignals[p].multiplexer_ids)
        IN  signals[p].multiplexer_ids = IF ids = <<>> THEN None ELSE PyList(ids)

\* C5 as the code has it: a list or tuple source always yields the sequence
\* of its parsable elements in source order, empty when none parses; None is
\* reported only for a missing or None source and for a scalar that does not
\* parse; the Mux IDs cell is blank in both cases.
C5_MultiplexerIds ==
    /\ \A p \in 1..Len(signals) :
           LET src == SourceSignals[p].multiplexer_ids
               ids == ParsableIds(src)
           IN  signals[p].multiplexer_ids =
                   IF src.t \in {"list", "tuple"} \/ ids # <<>> THEN PyList(ids)
                   ELSE None
    /\ Len(wb) >= 2 =>
           \A p \in 2..Len(wb[2].rows) :
               ParsableIds(SourceSignals[p - 1].multiplexer_ids) = <<>>
                   => wb[2].rows[p][17] = Blank

C5_Witness ==
    /\ Len(wb) >= 2
    /\ Len(wb[2].rows) = 2
    /\ SourceSignals[1].multiplexer_ids.t = "list"
    /\ Len(SourceSignals[1].multiplexer_ids.xs) = MaxItems
    /\ signals[1].multiplexer_ids = PyList(<<>>)

\* the cell text of a boolean-like source value
YesNoBlank(raw) ==
    IF raw.t = "bool" THEN (IF raw.n = 1 THEN "Yes" ELSE "No") ELSE ""

\* the exported form of a boolean-like source value
BoolOrNone(raw) == IF raw.t = "bool" THEN raw ELSE None

\* C6: a boolean-like field is exported as the source value when that is a
\* bool and as None for any other value, never as False in place of unknown;
\* its cell reads Yes, No or blank accordingly.
C6_TriStateFlags ==
    /\ \A p \in 1..Len(messages) :
           messages[p].is_extended_frame = BoolOrNone(DbMessages[p].is_extended_frame)
    /\ \A p \in 1..Len(signals) :
           /\ signals[p].is_signed = BoolOrNone(SourceSignals[p].is_signed)
           /\ signals[p].is_float = BoolOrNone(SourceSignals[p].is_float)
           /\ signals[p].is_multiplexer = BoolOrNone(SourceSignals[p].is_multiplexer)
    /\ Len(wb) >= 1 =>
           \A p \in 2..Len(wb[1].rows) :
               wb[1].rows[p][4] = StrCell(YesNoBlank(DbMessages[p - 1].is_extended_frame))
    /\ Len(wb) >= 2 =>
           \A p \in 2..Len(wb[2].rows) :
               /\ wb[2].rows[p][8] = StrCell(YesNoBlank(SourceSignals[p - 1].is_signed))
               /\ wb[2].rows[p][9] = StrCell(YesNoBlank(SourceSignals[p - 1].is_float))
               /\ wb[2].rows[p][16] =
                      StrCell(YesNoBlank(SourceSignals[p - 1].is_multiplexer))

C6_Witness ==
    /\ Len(wb) >= 2
    /\ Len(wb[2].rows) = 2
    /\ SourceSignals[1].is_signed = PyI(1)
    /\ signals[1].is_signed = None
    /\ wb[2].rows[2][8] = Blank
    /\ wb[2].rows[2][9] = StrCell("No")

\* str(name) of a library object
SourceName(obj) == IF obj.name.t = "missing" THEN <<>> ELSE StrChars(obj.name)

\* the attribute entries one owner gives rise to, in the order of its mapping
OwnerEntries(scope, owner, obj) ==
    [q \in 1..Len(SourceItems(obj)) |->
        [scope |-> scope, owner |-> PyS(owner),
         key |-> PyS(StrChars(SourceItems(obj)[q].k)),
         value |-> SourceItems(obj)[q].v]]

RECURSIVE ConcatAll(_)
ConcatAll(seqs) == IF seqs = <<>> THEN <<>> ELSE seqs[1] \o ConcatAll(Tail(seqs))

\* the attribute entries of message number p followed by those of its signals
MessageEntries(p) ==
    OwnerEntries("message", SourceName(DbMessages[p]), DbMessages[p])
        \o ConcatAll([q \in 1..Len(MessageSignals(p)) |->
                         OwnerEntries("signal",
                                      SourceName(DbMessages[p]) \o <<".">>
                                          \o SourceName(MessageSignals(p)[q]),
                                      MessageSignals(p)[q])])

\* owner by owner: each message with its signals, then the nodes
OwnerByOwner ==
    ConcatAll([p \in 1..Len(DbMessages) |-> MessageEntries(p)])
        \o ConcatAll([p \in 1..Len(DbNodes) |->
                         OwnerEntries("node", SourceName(DbNodes[p]), DbNodes[p])])

AllMaterialized ==
    /\ Len(nodes) = Len(DbNodes)
    /\ Len(messages) = Len(DbMessages)
    /\ Len(signals) = Len(SourceSignals)

\* the attributes of each owner are in the order of its source mapping, in
\* the Export and in the rows of the Attributes sheet
SourceOrderKept ==
    /\ export.returned => export.v.attributes = OwnerByOwner
    /\ Len(wb) >= 4 =>
           \A p \in 2..Len(wb[4].rows) :
               /\ wb[4].rows[p][1] = StrCell(OwnerByOwner[p - 1].scope)
               /\ wb[4].rows[p][2] = Cell(OwnerByOwner[p - 1].owner)
               /\ wb[4].rows[p][3] = Cell(OwnerByOwner[p - 1].key)

\* C7 as claimed: no Attribute entry is in the list while a Message or Signal
\* entry is still to be appended, and the attributes of one owner keep the
\* order of the source mapping, in the Export and on the Attributes sheet.
C7_FlattenedAfterAll ==
    /\ attributes # <<>> => AllMaterialized
    /\ SourceOrderKept

\* C7 as the code has it: an Attribute entry is appended only once its own
\* owner is materialized (a message's entries right after its Message entry, a
\* signal's right after its Signal entry, the nodes' after every entry), and
\* the attributes of one owner keep the order of the source mapping, in the
\* Export and on the Attributes sheet.
C7_FlattenedAfterOwner ==
    /\ \A p \in 1..Len(attributes) :
           LET a == attributes[p]
           IN  CASE a.scope = "message" ->
                        \E q \in 1..Len(messages) : messages[q].name = a.owner
                 [] a.scope = "signal" ->
                        \E q \in 1..Len(signals) :
                            a.owner = PyS(signals[q].message_name.s \o <<".">>
                                              \o signals[q].name.s)
                 [] OTHER ->
                        /\ AllMaterialized
                        /\ \E q \in 1..Len(nodes) : nodes[q].name = a.owner
    /\ SourceOrderKept

C7_Witness ==
    /\ Len(wb) >= 4
    /\ wb[4].header_styled
    /\ Len(wb[4].rows) > 6
    /\ wb[4].rows[2][3] = StrCell("b")
    /\ wb[4].rows[3][3] = StrCell("a")
    /\ wb[4].rows[Len(wb[4].rows)][1] = StrCell("node")

\* whether sheet number p has its rows, header styling, freeze pane,
\* auto-filter and column widths
SheetComplete(p) ==
    /\ Len(wb[p].rows) = 1 + RowCount(written, p)
    /\ wb[p].header_styled
    /\ wb[p].freeze_panes = "A2"
    /\ wb[p].auto_filter = <<Len(wb[p].rows[1]), Len(wb[p].rows)>>
    /\ Len(wb[p].widths) = Len(wb[p].rows[1])

\* C8: the workbook holds the sheets Messages, Signals, Nodes, Attributes,
\* ValueTables in this order and never the default sheet; the first row of a
\* sheet is its header; styling, freeze pane, auto-filter and widths are set
\* only once all data rows are in; a sheet is begun only when the sheets before
\* it are complete; save is called at most once, only with all five sheets
\* complete, and never after a sheet step raised.
C8_SheetsThenSave ==
    /\ Len(wb) <= 5
    /\ \A p \in 1..Len(wb) :
           /\ wb[p].title =
                  <<"Messages", "Signals", "Nodes", "Attributes", "ValueTables">>[p]
           /\ wb[p].rows # <<>> => wb[p].rows[1] = SheetHeaders[p]
           /\ (wb[p].header_styled \/ wb[p].freeze_panes # "" \/ wb[p].widths # <<>>
                   \/ wb[p].auto_filter # <<0, 0>>)
                  => Len(wb[p].rows) = 1 + RowCount(written, p)
           /\ p < Len(wb) => SheetComplete(p)
    /\ saves <= 1
    /\ saves = 1 => Len(wb) = 5 /\ \A p \in 1..5 : SheetComplete(p)
    /\ pc = "write_raised" => saves = 0
    /\ pc = "done" => saves = 1

C8_Witness ==
    /\ pc = "done"
    /\ saves = 1
    /\ Len(wb[1].rows) = 1 + MaxMsgs
    /\ Len(wb[5].rows) > 2

\* the number of choices of the signals before number p
ChoicesBefore(ss, p) == SumLen([q \in 1..(p - 1) |-> ss[q].choices.kv])

\* C9: the data rows of the ValueTables sheet are, signal by signal in Export
\* order, one row per entry of the choices of the signal (none for an empty
\* mapping), in strictly ascending order of the integer value, each with the
\* message name, signal name and hex frame id of the signal.
C9_ValueTables ==
    (Len(wb) = 5 /\ wb[5].header_styled) =>
        LET data == Tail(wb[5].rows)
            ss == written.signals
        IN  /\ Len(data) = ChoicesBefore(ss, Len(ss) + 1)
            /\ \A p \in 1..Len(ss) : \A e \in 1..Len(ss[p].choices.kv) :
                   LET rw == data[ChoicesBefore(ss, p) + e]
                   IN  /\ rw[1] = Cell(ss[p].message_name)
                       /\ rw[2] = Cell(ss[p].name)
                       /\ rw[3] = Cell(ss[p].message_frame_id_hex)
                       /\ \E c \in 1..Len(ss[p].choices.kv) :
                              /\ rw[4] = Cell(ss[p].choices.kv[c].k)
                              /\ rw[5] = Cell(ss[p].choices.kv[c].v)
                       /\ e > 1 => data[ChoicesBefore(ss, p) + e - 1][4].n < rw[4].n

C9_Witness ==
    /\ Len(wb) = 5
    /\ wb[5].header_styled
    /\ Len(written.signals) = MaxMsgs * MaxSigs
    /\ Len(wb[5].rows) >= 5
    /\ written.signals[1].choices.kv[1].k = PyI(2)
    /\ written.signals[2].choices.kv = <<>>
    /\ wb[5].rows[2][4].n = 0 /\ wb[5].rows[3][4].n = 2

\* C10: the choices of a Signal are a mapping from integers to strings: every
\* source key that int() accepts is a key of it, every key of it comes from
\* such a source key and carries the str() of the value of the last source
\* entry coerced to it, keys that int() rejects and sources that are no
\* mapping contribute nothing, and it has no more entries than the source.
C10_SignalChoices ==
    \A p \in 1..Len(signals) :
        LET src == SourceSignals[p].choices
            items == IF src.t = "dict" THEN src.kv ELSE <<>>
            out == signals[p].choices
            Coerces(q, n) == IntOf(items[q].k).ok /\ IntOf(items[q].k).n = n
        IN  /\ out.t = "dict"
            /\ Len(out.kv) <= Len(items)
            /\ \A e \in 1..Len(out.kv) :
                   /\ out.kv[e].k.t = "int"
                   /\ out.kv[e].v.t = "str"
                   /\ \A f \in 1..Len(out.kv) : f # e => out.kv[f].k # out.kv[e].k
                   /\ \E q \in 1..Len(items) :
                          /\ Coerces(q, out.kv[e].k.n)
                          /\ \A q2 \in (q + 1)..Len(items) : ~Coerces(q2, out.kv[e].k.n)
                          /\ out.kv[e].v = PyS(StrChars(items[q].v))
            /\ \A q \in 1..Len(items) :
                   IntOf(items[q].k).ok =>
                       \E e \in 1..Len(out.kv) : out.kv[e].k = PyI(IntOf(items[q].k).n)

C10_Witness ==
    /\ Len(signals) = 1
    /\ SourceSignals[1].choices.t = "dict"
    /\ Len(SourceSignals[1].choices.kv) = MaxItems
    /\ SourceSignals[1].choices.kv[1].k = PyI(2)
    /\ SourceSignals[1].choices.kv[2].k = PyS(<<"2">>)
    /\ signals[1].choices.kv = <<Item(PyI(2), PyS(<<"5">>))>>

\* the number of characters of the decimal form of an integer
DecimalLength(n) ==
    IF n < 0 THEN 1 + (CHOOSE d \in 1..20 : 10 ^ (d - 1) <= 0 - n /\ 0 - n < 10 ^ d)
    ELSE IF n = 0 THEN 1
    ELSE CHOOSE d \in 1..20 : 10 ^ (d - 1) <= n /\ n < 10 ^ d

\* the length of the stringified value of a cell, None counting as 0
StringifiedLength(c) ==
    CASE c.t = "str" -> Len(c.text)
      [] c.t = "none" -> 0
      [] OTHER -> DecimalLength(c.n)

\* whether L is the greatest stringified length in column col of sheet ws,
\* the header included
IsColumnLength(ws, col, L) ==
    /\ \A rw \in 1..Len(ws.rows) : StringifiedLength(ws.rows[rw][col]) <= L
    /\ \E rw \in 1..Len(ws.rows) : StringifiedLength(ws.rows[rw][col]) = L

\* C11: once the widths of a sheet are set, each column of the sheet has one,
\* and it is L + 2 raised to at least 10 and cut to at most 60, L being the
\* greatest stringified length in the column, the header included; so every
\* width lies between 10 and 60.
C11_ColumnWidths ==
    \A p \in 1..Len(wb) :
        wb[p].widths # <<>> =>
            /\ Len(wb[p].widths) = Len(wb[p].rows[1])
            /\ \A col \in 1..Len(wb[p].widths) :
                   /\ wb[p].widths[col] >= 10
                   /\ wb[p].widths[col] <= 60
                   /\ \E L \in 0..200 :
                          /\ IsColumnLength(wb[p], col, L)
                          /\ wb[p].widths[col] =
                                 (IF L + 2 < 10 THEN 10
                                  ELSE IF L + 2 > 60 THEN 60 ELSE L + 2)

C11_Witness ==
    /\ pc = "done"
    /\ Len(wb[1].rows) = 2
    /\ Len(wb[1].rows[2][8].text) = 59
    /\ wb[1].widths[8] = 60
    /\ wb[1].widths[3] = 16
    /\ wb[5].widths[4] = 10
====
